---- MODULE Spec2Model ----
(***************************************************************************)
(* Model of vito-cli's `tx` command (src/src/commands/tx.rs, execute) and  *)
(* of its network tables (src/src/config.rs).                              *)
(*                                                                         *)
(* Text is a sequence of one-character strings, bytes are sequences of     *)
(* numbers 0..255, and an unsigned 256-bit value is the sequence of its    *)
(* decimal digits (most significant first, no leading zero), so that the   *)
(* parsing and formatting the command performs are computed and not        *)
(* assumed.  One invocation of execute is one behaviour: every action is   *)
(* the code that runs from one await to the next, and the Chain Client's   *)
(* answer to the outstanding call is chosen by the action that resumes.    *)
(***************************************************************************)
EXTENDS Integers, Sequences, FiniteSets, TLC

\* ------------------------------------------------------------------ bounds
\* Longest hash list getPendingTxHashes answers with.
MaxHashes == 3

\* -------------------------------------------------------- option and result
None == [some |-> FALSE]
Some(v) == [some |-> TRUE, val |-> v]
Ok(v) == [ok |-> TRUE, val |-> v]
Err == [ok |-> FALSE]

Rep(x, n) == [i \in 1..n |-> x]

\* ------------------------------------------------------------- hex and text
\* Width in bytes of ethers' Address (H160) and H256.
AddressBytes == 20
H256Bytes == 32

HexLower == <<"0","1","2","3","4","5","6","7","8","9","a","b","c","d","e","f">>
HexUpper == <<"0","1","2","3","4","5","6","7","8","9","A","B","C","D","E","F">>
Whitespace == {" ", "\t", "\n", "\r"}

IsHexChar(c) == \E i \in 1..16 : HexLower[i] = c \/ HexUpper[i] = c
HexVal(c) == (CHOOSE i \in 1..16 : HexLower[i] = c \/ HexUpper[i] = c) - 1

\* rustc_hex::FromHexIter, as `Address::from_str` and `H256::from_str` drive it:
\* an optional "0x" is stripped, whitespace is skipped, any other character that
\* is no hex digit is an error, and exactly 2 * n digits must remain.
StripPrefix(text) ==
  IF Len(text) >= 2 /\ text[1] = "0" /\ text[2] = "x"
    THEN SubSeq(text, 3, Len(text)) ELSE text

FromHexDigits(digits, n) ==
  IF /\ \A i \in 1..Len(digits) : IsHexChar(digits[i])
     /\ Len(digits) = 2 * n
    THEN Ok([i \in 1..n |-> 16 * HexVal(digits[2*i - 1]) + HexVal(digits[2*i])])
    ELSE Err

FromHex(text, n) ==
  CHOOSE parsed \in
    { FromHexDigits(digits, n) :
        digits \in { SelectSeq(StripPrefix(text), LAMBDA c : c \notin Whitespace) } } :
    TRUE

AddressFromStr(text) == FromHex(text, AddressBytes)

\* A text that does not parse is taken for the zero hash.
H256FromStrOrZero(text) ==
  IF FromHex(text, H256Bytes).ok THEN FromHex(text, H256Bytes)
                                 ELSE Ok(Rep(0, H256Bytes))

H256FromStr(text) == FromHex(text, H256Bytes)

\* hex::encode: two lowercase digits per byte.
HexEncode(bytes) ==
  [i \in 1..(2 * Len(bytes)) |->
     IF i % 2 = 1 THEN HexLower[(bytes[(i + 1) \div 2] \div 16) + 1]
                  ELSE HexLower[(bytes[i \div 2] % 16) + 1]]

\* format!("0x{}", hex::encode(..)) and format!("0x{:x}", address).
Format0x(bytes) == <<"0", "x">> \o HexEncode(bytes)

\* Display of a fixed hash ("{}"): the first two and the last two bytes.
DisplayHash(bytes) ==
  <<"0", "x">> \o HexEncode(SubSeq(bytes, 1, 2)) \o <<"...">>
     \o HexEncode(SubSeq(bytes, Len(bytes) - 1, Len(bytes)))

AddressZero == Rep(0, AddressBytes)

\* U256::to_string: the decimal digits as characters.
DecChars == <<"0","1","2","3","4","5","6","7","8","9">>
U256ToString(digits) == [i \in 1..Len(digits) |-> DecChars[digits[i] + 1]]

\* u64::from_str, as `nonce.parse::<u64>()` uses it: an optional "+", then at
\* least one decimal digit and nothing else; a value above u64::MAX is an error.
\* The value is the digit sequence without leading zeros.
U64Max == <<1,8,4,4,6,7,4,4,0,7,3,7,0,9,5,5,1,6,1,5>>

IsDecChar(c) == \E i \in 1..10 : DecChars[i] = c
DecVal(c) == (CHOOSE i \in 1..10 : DecChars[i] = c) - 1

StripZeros(digits) ==
  IF \A i \in 1..Len(digits) : digits[i] = 0
    THEN <<0>>
    ELSE SubSeq(digits, CHOOSE i \in 1..Len(digits) :
                          digits[i] # 0 /\ \A j \in 1..(i - 1) : digits[j] = 0,
                Len(digits))

\* a < b for two digit sequences without leading zeros.
DigitsLess(a, b) ==
  \/ Len(a) < Len(b)
  \/ /\ Len(a) = Len(b)
     /\ \E i \in 1..Len(a) : a[i] < b[i] /\ \A j \in 1..(i - 1) : a[j] = b[j]

ParseU64(text) ==
  LET body == IF Len(text) >= 1 /\ text[1] = "+" THEN Tail(text) ELSE text
  IN IF Len(body) = 0 \/ \E i \in 1..Len(body) : ~IsDecChar(body[i])
       THEN Err
       ELSE CHOOSE parsed \in
              { IF DigitsLess(U64Max, value) THEN Err ELSE Ok(value) :
                  value \in { StripZeros(digits) :
                              digits \in { [i \in 1..Len(body) |-> DecVal(body[i])] } } } :
              TRUE

\* U256::as_u64 (line 58): a value above u64::MAX panics, any other value is
\* the number itself.  The number is computed as an integer of the checker, so
\* the chain ids answered are chosen below 2^31 or above u64::MAX.
FitsU64(value) == ~DigitsLess(U64Max, value)

RECURSIVE DigitsToNat(_, _)
DigitsToNat(digits, k) ==
  IF k = 0 THEN 0 ELSE 10 * DigitsToNat(digits, k - 1) + digits[k]

AsU64(value) == DigitsToNat(value, Len(value))

\* The decimal digits of a number: the U256 an answer of that number holds.
RECURSIVE U256Of(_)
U256Of(n) == IF n < 10 THEN <<n>> ELSE Append(U256Of(n \div 10), n % 10)

\* `.unwrap_or(0)` of the sort key.
UnwrapOrZero(parsed) == IF parsed.ok THEN parsed.val ELSE <<0>>
NonceKey(record) == UnwrapOrZero(ParseU64(record.nonce))

\* `transactions.sort_by(..)`: a stable sort on the parsed nonce.  An element is
\* inserted behind every element that is not greater than it.
InsertByNonce(sorted, record) ==
  CHOOSE out \in
    { SubSeq(sorted, 1, at - 1) \o <<record>> \o SubSeq(sorted, at, Len(sorted)) :
        at \in { IF behind = {} THEN Len(sorted) + 1
                 ELSE CHOOSE i \in behind : \A j \in behind : i <= j :
                   behind \in { { i \in 1..Len(sorted) :
                                    \E a \in { NonceKey(record) },
                                       b \in { NonceKey(sorted[i]) } :
                                      DigitsLess(a, b) } } } } :
    TRUE

RECURSIVE SortByNonce(_)
SortByNonce(records) ==
  IF records = <<>> THEN <<>>
  ELSE \* the sorted prefix and the last record, each computed once
       CHOOSE out \in { InsertByNonce(sorted, last) :
                          sorted \in { SortByNonce(SubSeq(records, 1, Len(records) - 1)) },
                          last \in { records[Len(records)] } } : TRUE

\* ------------------------------------------------------------ src/config.rs
MAINNET == 1
GOERLI == 5
SEPOLIA == 11155111
POLYGON == 137
ARBITRUM == 42161
OPTIMISM == 10
BASE == 8453
GNOSIS == 100

DEFAULT_MAINNET_RPC == "https://eth-mainnet.g.alchemy.com/v2/demo"
SAFE_TX_POOL_ADDRESSES ==
     (MAINNET :> <<"0","x","6","b","8","e","1","f","0","D","2","c","3","4",
          "A","0","A","e","a","D","9","A","2","5","B","6","9","6",
          "6","f","7","C","0","C","A","D","6","5","3","E","5","c">>)
  @@ (GOERLI :> <<"0","x","3","A","4","f","A","5","4","b","8","A","a","B",
          "5","E","2","E","2","D","B","D","0","a","4","1","f","4",
          "1","f","6","2","9","e","4","e","7","1","e","2","E","7">>)
  @@ (SEPOLIA :> <<"0","x","a","2","a","d","2","1","d","c","9","3","B","3",
          "6","2","5","7","0","D","0","1","5","9","b","9","E","3",
          "A","2","f","E","5","D","8","e","c","A","0","4","2","4">>)
  @@ (POLYGON :> <<"0","x","A","3","B","9","F","f","9","5","a","7","8","e",
          "0","4","8","4","5","a","8","2","e","e","5","F","7","5",
          "5","9","5","E","7","b","D","a","B","8","7","2","3","D">>)
  @@ (ARBITRUM :> <<"0","x","7","c","4","A","2","D","b","7","0","E","5","f",
          "3","9","B","A","5","D","b","1","1","B","8","A","9","4",
          "2","f","0","2","A","8","D","3","B","3","a","A","1","B">>)
  @@ (OPTIMISM :> <<"0","x","6","E","4","d","9","4","1","A","6","f","A","D",
          "7","6","B","3","d","2","6","E","0","c","5","4","4","7",
          "B","4","f","5","A","7","E","f","c","A","8","a","b","8">>)
  @@ (BASE :> <<"0","x","2","d","3","4","0","e","2","2","C","5","A","3",
          "3","c","1","E","a","0","1","D","A","C","4","1","E","3",
          "3","1","b","7","F","E","4","c","0","3","3","C","3","b">>)
  @@ (GNOSIS :> <<"0","x","8","d","0","C","7","B","C","9","c","4","c","5",
          "8","8","5","3","4","d","C","1","B","F","9","6","d","3",
          "e","e","9","A","4","b","C","c","B","f","2","8","C","7">>)

DEFAULT_SAFE_TX_POOL_ADDRESS ==
  <<"0","x","6","b","8","e","1","f","0","D","2","c","3","4",
    "A","0","A","e","a","D","9","A","2","5","B","6","9","6",
    "6","f","7","C","0","C","A","D","6","5","3","E","5","c">>

get_network_name(chain_id) ==
  CASE chain_id = MAINNET  -> "Ethereum Mainnet"
    [] chain_id = GOERLI   -> "Goerli Testnet"
    [] chain_id = SEPOLIA  -> "Sepolia Testnet"
    [] chain_id = POLYGON  -> "Polygon"
    [] chain_id = ARBITRUM -> "Arbitrum"
    [] chain_id = OPTIMISM -> "Optimism"
    [] chain_id = BASE     -> "Base"
    [] chain_id = GNOSIS   -> "Gnosis Chain"
    [] OTHER               -> "Unknown Network"

\* The table is not consulted: every network gets the fallback address.
get_safe_tx_pool_address_fallback(network_id) == DEFAULT_SAFE_TX_POOL_ADDRESS

get_safe_tx_pool_address(network_id) ==
  IF network_id \in DOMAIN SAFE_TX_POOL_ADDRESSES
    THEN SAFE_TX_POOL_ADDRESSES[network_id]
    ELSE DEFAULT_SAFE_TX_POOL_ADDRESS

\* ------------------------------------------------- src/commands/tx.rs: data
\* The messages execute fails with ({} stands for the formatted argument).
ErrInvalidSafe == "Invalid Safe wallet address format"
ErrConnect == "Failed to connect to RPC provider"
ErrChainId == "Failed to get chain ID from network"
ErrQueryNetwork == "Failed to query the network"
ErrWalletNotFound == "Safe wallet address not found on {}"
ErrInvalidCustomPool == "Invalid custom Safe transaction pool address"
ErrInvalidPool == "Invalid Safe transaction pool address"
ErrQueryPool == "Failed to query the network for transaction pool contract"
ErrPoolNotFound == "Transaction pool contract not found at {}"
ErrInvalidHash == "Invalid transaction hash format"
ErrDetails == "Failed to fetch transaction details: {}"
ErrNotFound == "Transaction not found or has already been executed"
ErrSignatures == "Failed to fetch transaction signatures: {}"
ErrHashes == "Failed to fetch pending transaction hashes: {}"

\* struct TransactionData, built from the requested hash, the tuple getTxDetails
\* returned and the signatures.
\* The hash is written with "{}", which abbreviates it.
TransactionDataDisplayHash(tx_hash, details, signatures) ==
  [hash       |-> DisplayHash(tx_hash),
   safe       |-> Format0x(details.safe),
   to         |-> Format0x(details.to),
   value      |-> U256ToString(details.value),
   data       |-> Format0x(details.data),
   operation  |-> details.operation,
   proposer   |-> Format0x(details.proposer),
   nonce      |-> U256ToString(details.nonce),
   signatures |-> signatures]

TransactionData(tx_hash, details, signatures) ==
  [hash       |-> Format0x(tx_hash),
   safe       |-> Format0x(details.safe),
   to         |-> Format0x(details.to),
   value      |-> U256ToString(details.value),
   data       |-> Format0x(details.data),
   operation  |-> details.operation,
   proposer   |-> Format0x(details.proposer),
   nonce      |-> U256ToString(details.nonce),
   signatures |-> signatures]

\* signatures.into_iter().map(|sig| format!("0x{}", hex::encode(sig))).collect()
SignatureStrings(sigs) == [i \in 1..Len(sigs) |-> Format0x(sigs[i])]

\* The network's address wins over the custom one.
PoolAddressTextNetworkFirst(custom, network) ==
  IF network \in DOMAIN SAFE_TX_POOL_ADDRESSES \/ ~custom.some
    THEN get_safe_tx_pool_address(network) ELSE custom.val

\* The pool address text execute parses: the custom address when one is given,
\* the address of the connected network otherwise.
PoolAddressText(custom, network) ==
  IF custom.some THEN custom.val ELSE get_safe_tx_pool_address(network)

\* ----------------------------------------------------- inputs of a run
WalletAddress == [i \in 1..AddressBytes |-> 160 + i]
OverridePoolAddress == [i \in 1..AddressBytes |-> IF i <= 10 THEN 204 ELSE 221]
ProposerAddress == [i \in 1..AddressBytes |-> 16 * (i % 16) + 1]
TargetAddress == [i \in 1..AddressBytes |-> 3 * i]

HashA == [i \in 1..H256Bytes |-> 171]
HashB == [i \in 1..H256Bytes |-> 7 * i]

\* The same digits in upper case and without the "0x".
UpperNoPrefix(text) ==
  LET body == StripPrefix(text)
  IN [i \in 1..Len(body) |-> HexUpper[HexVal(body[i]) + 1]]

SafeTexts ==
  { Format0x(WalletAddress),
    SubSeq(Format0x(WalletAddress), 1, 2 * AddressBytes + 1) }

RpcOptions == { None, Some("not a url") }

\* Url::parse, as Provider::<Http>::try_from uses it, on the texts of RpcOptions.
UrlParses(url) == url \in { DEFAULT_MAINNET_RPC }

HashOptions ==
  { None,
    Some(Format0x(HashB)),
    Some(UpperNoPrefix(Format0x(HashA))),
    Some(SubSeq(Format0x(HashB), 1, 2 * H256Bytes + 1)),
    Some(<<"0", "X">> \o HexEncode(HashA)) }

TxPoolOptions ==
  { None,
    Some(UpperNoPrefix(Format0x(OverridePoolAddress))),
    Some(<<"0", "x">> \o Rep("g", 2 * AddressBytes)) }

\* ------------------------------------------- answers of the Chain Client
\* A network with a pool address of its own and one the table does not hold.
TwoPow64 == <<1,8,4,4,6,7,4,4,0,7,3,7,0,9,5,5,1,6,1,6>>
ChainIds == { U256Of(GNOSIS), U256Of(31337), TwoPow64 }
ChainIdReplies == { Err } \cup { Ok(id) : id \in ChainIds }

CodeReplies == { Err, Ok(<<>>), Ok(<<96, 128, 96, 64>>) }

\* 2^64, the first nonce that does not fit a u64.
Nonces == { <<1>>, <<3>>, <<5>>, TwoPow64 }

Details(proposer, nonce) ==
  [safe |-> WalletAddress, to |-> TargetAddress, value |-> <<1, 0, 0>>,
   data |-> <<222, 173>>, operation |-> 0, proposer |-> proposer, nonce |-> nonce]

\* What the pool returns for a hash it does not hold: every field zero.
MissingDetails ==
  [safe |-> AddressZero, to |-> AddressZero, value |-> <<0>>,
   data |-> <<>>, operation |-> 0, proposer |-> AddressZero, nonce |-> <<0>>]

DetailsReplies ==
  { Err, Ok(MissingDetails) } \cup { Ok(Details(ProposerAddress, n)) : n \in Nonces }

SignaturesReplies == { Err, Ok(<< <<1, 2, 27>>, <<3, 4, 28>> >>) }

HashLists ==
  { [i \in 1..n |-> IF i % 2 = 1 THEN HashA ELSE HashB] : n \in 0..MaxHashes }
HashListReplies == { Err } \cup { Ok(l) : l \in HashLists }

\* ------------------------------------------------------------------ state
VARIABLES
  safe, rpc, hash, tx_pool,   \* the arguments of execute
  pc,                         \* the await execute is suspended at
  rpc_url, safe_address, network_id, network_name, tx_pool_address,
  tx_hash,                    \* the parsed hash of a single lookup
  all_tx_hashes, idx,         \* the hash list of a bulk run and the loop position
  tx_details, transactions,
  stdout,                     \* the lines printed so far
  result,                     \* "Running", "Ok" or the message of the error
  calls, replies              \* Chain Client calls issued and their answers

args == <<safe, rpc, hash, tx_pool>>
locals == <<rpc_url, safe_address, network_id, network_name, tx_pool_address,
            tx_hash, all_tx_hashes, idx, tx_details, transactions>>
vars == <<safe, rpc, hash, tx_pool, pc, rpc_url, safe_address, network_id,
          network_name, tx_pool_address, tx_hash, all_tx_hashes, idx,
          tx_details, transactions, stdout, result, calls, replies>>

NoDetails == [unset |-> TRUE]

Init ==
  /\ safe \in SafeTexts
  /\ rpc \in RpcOptions
  /\ hash \in HashOptions
  /\ tx_pool \in TxPoolOptions
  /\ pc = "start"
  /\ rpc_url = ""
  /\ safe_address = <<>>
  /\ network_id = 0
  /\ network_name = ""
  /\ tx_pool_address = <<>>
  /\ tx_hash = <<>>
  /\ all_tx_hashes = <<>>
  /\ idx = 0
  /\ tx_details = NoDetails
  /\ transactions = <<>>
  /\ stdout = <<>>
  /\ result = "Running"
  /\ calls = <<>>
  /\ replies = <<>>

\* `?` and `bail!`: execute returns the error; what was printed stays printed.
Fail(message, printed) ==
  /\ result' = message
  /\ pc' = "done"
  /\ stdout' = printed
  /\ UNCHANGED <<args, locals, calls>>

\* Lines 37-55: the wallet address, the RPC endpoint, the provider, get_chainid.
Start ==
  /\ pc = "start"
  /\ UNCHANGED replies
  /\ LET parsed  == AddressFromStr(safe)
         url     == IF rpc.some THEN rpc.val ELSE DEFAULT_MAINNET_RPC
         printed == IF rpc.some THEN stdout
                    ELSE Append(stdout, [tag |-> "NoRpcUrl"])
     IN IF ~parsed.ok THEN Fail(ErrInvalidSafe, stdout)
        ELSE IF ~UrlParses(url) THEN Fail(ErrConnect, printed)
        ELSE /\ safe_address' = parsed.val
             /\ rpc_url' = url
             /\ stdout' = printed
             /\ calls' = Append(calls, [op |-> "getChainId"])
             /\ pc' = "await_chainid"
             /\ UNCHANGED <<args, network_id, network_name, tx_pool_address, tx_hash,
                            all_tx_hashes, idx, tx_details, transactions, result>>

\* Lines 55-64: the chain id answers; the network is named and the wallet's
\* code is asked for.
ChainIdReturnFrom(answers) ==
  /\ pc = "await_chainid"
  /\ \E reply \in answers :
       /\ replies' = Append(replies, reply)
       /\ IF ~reply.ok THEN Fail(ErrChainId, stdout)
          ELSE IF ~FitsU64(reply.val)
            THEN \* as_u64 panics: execute returns nothing
                 /\ pc' = "panicked"
                 /\ UNCHANGED <<args, locals, stdout, result, calls>>
            ELSE \E id \in { AsU64(reply.val) } :
                   /\ network_id' = id
                   /\ network_name' = get_network_name(id)
                   /\ stdout' = Append(stdout, [tag |-> "Connected",
                                                network_name |-> get_network_name(id),
                                                network_id |-> id])
                   /\ calls' = Append(calls, [op |-> "getCodeAt", address |-> safe_address])
                   /\ pc' = "await_wallet_code"
                   /\ UNCHANGED <<args, rpc_url, safe_address, tx_pool_address, tx_hash,
                                  all_tx_hashes, idx, tx_details, transactions, result>>

ChainIdReturn == ChainIdReturnFrom(ChainIdReplies)

\* Code that is empty is taken for deployed code.
IsEmptyCodeNever(code) == FALSE

\* Lines 67 and 91: `code.is_empty()`, nothing is deployed at the address.
IsEmptyCode(code) == Len(code) = 0

\* Lines 64-88: the wallet's code answers; the pool address is determined and
\* the pool's code is asked for.
WalletCodeReturn ==
  /\ pc = "await_wallet_code"
  /\ \E reply \in CodeReplies :
       /\ replies' = Append(replies, reply)
       /\ IF ~reply.ok THEN Fail(ErrQueryNetwork, stdout)
          ELSE IF IsEmptyCode(reply.val) THEN Fail(ErrWalletNotFound, stdout)
          ELSE LET text    == PoolAddressText(tx_pool, network_id)
                   printed == Append(stdout,
                                IF tx_pool.some
                                  THEN [tag |-> "UsingCustomPool", address |-> text]
                                  ELSE [tag |-> "UsingPool", address |-> text,
                                        network_name |-> network_name])
                   parsed  == AddressFromStr(text)
               IN IF ~parsed.ok
                    THEN Fail(IF tx_pool.some THEN ErrInvalidCustomPool
                                              ELSE ErrInvalidPool, printed)
                    ELSE /\ tx_pool_address' = parsed.val
                         /\ stdout' = printed
                         /\ calls' = Append(calls, [op |-> "getCodeAt",
                                                    address |-> parsed.val])
                         /\ pc' = "await_pool_code"
                         /\ UNCHANGED <<args, rpc_url, safe_address, network_id,
                                        network_name, tx_hash, all_tx_hashes, idx,
                                        tx_details, transactions, result>>

\* Lines 88-107 and 148-152: the pool's code answers; the contract is bound and
\* the first contract call of the chosen mode is issued.
PoolCodeReturn ==
  /\ pc = "await_pool_code"
  /\ \E reply \in CodeReplies :
       /\ replies' = Append(replies, reply)
       /\ IF ~reply.ok THEN Fail(ErrQueryPool, stdout)
          ELSE IF IsEmptyCode(reply.val) THEN Fail(ErrPoolNotFound, stdout)
          ELSE IF hash.some
            THEN LET parsed == H256FromStr(hash.val)
                 IN IF ~parsed.ok THEN Fail(ErrInvalidHash, stdout)
                    ELSE /\ tx_hash' = parsed.val
                         /\ stdout' = Append(stdout, [tag |-> "Fetching",
                                                      hash |-> hash.val, safe |-> safe])
                         /\ calls' = Append(calls, [op |-> "getTxDetails",
                                                    contract |-> tx_pool_address,
                                                    txHash |-> parsed.val])
                         /\ pc' = "await_details"
                         /\ UNCHANGED <<args, rpc_url, safe_address, network_id,
                                        network_name, tx_pool_address, all_tx_hashes,
                                        idx, tx_details, transactions, result>>
            ELSE /\ stdout' = Append(stdout, [tag |-> "FetchingAll", safe |-> safe])
                 /\ calls' = Append(calls, [op |-> "getPendingTxHashes",
                                            contract |-> tx_pool_address,
                                            safe |-> safe_address])
                 /\ pc' = "await_hashes"
                 /\ UNCHANGED <<args, locals, result>>

\* The zero proposer is taken for a proposer.
IsMissingNever(details) == FALSE

\* Line 115: the zero proposer is the pool's "no such transaction".
IsMissing(details) == details.proposer = AddressZero

\* Lines 107-120: getTxDetails of the single lookup answers.
SingleDetailsReturn ==
  /\ pc = "await_details"
  /\ \E reply \in DetailsReplies :
       /\ replies' = Append(replies, reply)
       /\ IF ~reply.ok THEN Fail(ErrDetails, stdout)
          ELSE IF IsMissing(reply.val) THEN Fail(ErrNotFound, stdout)
          ELSE /\ tx_details' = reply.val
               /\ calls' = Append(calls, [op |-> "getSignatures",
                                          contract |-> tx_pool_address,
                                          txHash |-> tx_hash])
               /\ pc' = "await_signatures"
               /\ UNCHANGED <<args, rpc_url, safe_address, network_id, network_name,
                              tx_pool_address, tx_hash, all_tx_hashes, idx,
                              transactions, stdout, result>>

\* A signatures failure leaves the record without signatures, as in a bulk run.
SingleSignaturesReturnLenient ==
  /\ pc = "await_signatures"
  /\ \E reply \in SignaturesReplies :
       /\ replies' = Append(replies, reply)
       /\ stdout' = Append(stdout,
             [tag |-> "Json",
              record |-> TransactionData(tx_hash, tx_details,
                           IF reply.ok THEN SignatureStrings(reply.val) ELSE <<>>)])
       /\ result' = "Ok"
       /\ pc' = "done"
       /\ UNCHANGED <<args, locals, calls>>

\* Lines 120-146 and 217: getSignatures of the single lookup answers; the record
\* is built and printed.
SingleSignaturesReturn ==
  /\ pc = "await_signatures"
  /\ \E reply \in SignaturesReplies :
       /\ replies' = Append(replies, reply)
       /\ IF ~reply.ok THEN Fail(ErrSignatures, stdout)
          ELSE /\ stdout' = Append(stdout,
                     [tag |-> "Json",
                      record |-> TransactionData(tx_hash, tx_details,
                                                 SignatureStrings(reply.val))])
               /\ result' = "Ok"
               /\ pc' = "done"
               /\ UNCHANGED <<args, locals, calls>>

\* The end of one iteration of `for tx_hash in all_tx_hashes` (lines 173-204):
\* the next hash's getTxDetails is issued, or after the last hash the records
\* are sorted and printed (lines 206-217).
NextHash(records, printed) ==
  IF idx < Len(all_tx_hashes)
    THEN /\ idx' = idx + 1
         /\ transactions' = records
         /\ tx_details' = NoDetails
         /\ stdout' = printed
         /\ calls' = Append(calls, [op |-> "getTxDetails",
                                    contract |-> tx_pool_address,
                                    txHash |-> all_tx_hashes[idx + 1]])
         /\ pc' = "await_bulk_details"
         /\ UNCHANGED <<args, rpc_url, safe_address, network_id, network_name,
                        tx_pool_address, tx_hash, all_tx_hashes, result>>
    ELSE /\ \E sorted \in { SortByNonce(list) : list \in { records } } :
              /\ transactions' = sorted
              /\ stdout' = Append(printed, [tag |-> "JsonList", records |-> sorted])
         /\ tx_details' = NoDetails
         /\ result' = "Ok"
         /\ pc' = "done"
         /\ UNCHANGED <<args, rpc_url, safe_address, network_id, network_name,
                        tx_pool_address, tx_hash, all_tx_hashes, idx, calls>>

\* An empty hash list is reported as a failure.
EmptyHashListFails(list) == Fail(ErrHashes, stdout)

\* Lines 164-167: no pending transaction; execute returns Ok(()).
EmptyHashList(list) ==
  /\ all_tx_hashes' = list
  /\ stdout' = Append(stdout, [tag |-> "NoPending", safe |-> safe])
  /\ result' = "Ok"
  /\ pc' = "done"
  /\ UNCHANGED <<args, rpc_url, safe_address, network_id, network_name,
                 tx_pool_address, tx_hash, idx, tx_details, transactions, calls>>

\* A failed hash list is taken for an empty one.
HashListFailedIgnored == EmptyHashList(<<>>)

\* Lines 154-156: the hash list could not be fetched.
HashListFailed == Fail(ErrHashes, stdout)

\* Lines 152-175: getPendingTxHashes answers.
HashListReturn ==
  /\ pc = "await_hashes"
  /\ \E reply \in HashListReplies :
       /\ replies' = Append(replies, reply)
       /\ IF ~reply.ok THEN HashListFailed
          ELSE IF reply.val = <<>> THEN EmptyHashList(reply.val)
            ELSE /\ all_tx_hashes' = reply.val
                 /\ stdout' = Append(stdout, [tag |-> "Found", count |-> Len(reply.val)])
                 /\ transactions' = <<>>
                 /\ idx' = 1
                 /\ calls' = Append(calls, [op |-> "getTxDetails",
                                            contract |-> tx_pool_address,
                                            txHash |-> reply.val[1]])
                 /\ pc' = "await_bulk_details"
                 /\ UNCHANGED <<args, rpc_url, safe_address, network_id, network_name,
                                tx_pool_address, tx_hash, tx_details, result>>

\* A details failure is retried: getTxDetails is issued again for the same hash.
BulkDetailsFailedRetries ==
  /\ calls' = Append(calls, [op |-> "getTxDetails",
                             contract |-> tx_pool_address,
                             txHash |-> all_tx_hashes[idx]])
  /\ stdout' = Append(stdout, [tag |-> "Warning",
                               hash |-> DisplayHash(all_tx_hashes[idx])])
  /\ pc' = "await_bulk_details"
  /\ UNCHANGED <<args, locals, result>>

\* A details failure prints the records fetched so far and ends the run with
\* the error.
BulkDetailsFailedPrintsAndAborts ==
  Fail(ErrDetails, Append(stdout, [tag |-> "JsonList", records |-> transactions]))

\* A details failure is not looked at: the signatures are asked for anyway.
BulkDetailsFailedAsksSignatures ==
  /\ calls' = Append(calls, [op |-> "getSignatures",
                             contract |-> tx_pool_address,
                             txHash |-> all_tx_hashes[idx]])
  /\ pc' = "await_bulk_signatures"
  /\ UNCHANGED <<args, locals, stdout, result>>

\* A details failure ends the run, as it does in a single lookup.
BulkDetailsFailedAborts == Fail(ErrDetails, stdout)

\* Lines 200-202: the details of the hash at idx could not be fetched; a
\* warning is printed and the loop goes on.
BulkDetailsFailed ==
  NextHash(transactions,
           Append(stdout, [tag |-> "Warning",
                           hash |-> DisplayHash(all_tx_hashes[idx])]))

\* Lines 175-178 and 200-202: getTxDetails of the hash at idx answers.
BulkDetailsReturn ==
  /\ pc = "await_bulk_details"
  /\ \E reply \in DetailsReplies :
       /\ replies' = Append(replies, reply)
       /\ IF reply.ok
            THEN /\ tx_details' = reply.val
                 /\ calls' = Append(calls, [op |-> "getSignatures",
                                            contract |-> tx_pool_address,
                                            txHash |-> all_tx_hashes[idx]])
                 /\ pc' = "await_bulk_signatures"
                 /\ UNCHANGED <<args, rpc_url, safe_address, network_id, network_name,
                                tx_pool_address, tx_hash, all_tx_hashes, idx,
                                transactions, stdout, result>>
            ELSE BulkDetailsFailed

\* A signatures failure drops the record of the hash.
BulkSignaturesReturnSkips ==
  /\ pc = "await_bulk_signatures"
  /\ \E reply \in SignaturesReplies :
       /\ replies' = Append(replies, reply)
       /\ IF reply.ok
            THEN NextHash(Append(transactions,
                                 TransactionData(all_tx_hashes[idx], tx_details,
                                                 SignatureStrings(reply.val))),
                          stdout)
            ELSE NextHash(transactions, stdout)

\* Lines 178-198: getSignatures of the hash at idx answers; a failure leaves the
\* record with no signatures.
BulkSignatures(reply) == IF reply.ok THEN SignatureStrings(reply.val) ELSE <<>>

BulkSignaturesReturn ==
  /\ pc = "await_bulk_signatures"
  /\ \E reply \in SignaturesReplies :
       /\ replies' = Append(replies, reply)
       /\ NextHash(Append(transactions,
                          TransactionData(all_tx_hashes[idx], tx_details,
                                          BulkSignatures(reply))),
                   stdout)

Next ==
  \/ Start
  \/ ChainIdReturn
  \/ WalletCodeReturn
  \/ PoolCodeReturn
  \/ SingleDetailsReturn
  \/ SingleSignaturesReturn
  \/ HashListReturn
  \/ BulkDetailsReturn
  \/ BulkSignaturesReturn

Spec == Init /\ [][Next]_vars

\* Every step of execute that can be taken is taken in the end: the code between
\* two awaits runs to the next await, and every remote call returns.
FairSpec == Spec /\ WF_vars(Next)

\* Single lookups on every network of the table and on networks it does not
\* hold: the same code, with the chain id answered from a wider set.
TwoPow128 == <<3,4,0,2,8,2,3,6,6,9,2,0,9,3,8,4,6,3,4,6,
               3,3,7,4,6,0,7,4,3,1,7,6,8,2,1,1,4,5,6>>
AllChainIds ==
  { U256Of(id) : id \in DOMAIN SAFE_TX_POOL_ADDRESSES \cup { 0, 2, 31337 } }
    \cup { TwoPow64, TwoPow128 }

InitNetworks == Init /\ hash.some

ChainIdReturnAnyNetwork ==
  ChainIdReturnFrom({ Err } \cup { Ok(id) : id \in AllChainIds })

NextNetworks ==
  \/ Start
  \/ ChainIdReturnAnyNetwork
  \/ WalletCodeReturn
  \/ PoolCodeReturn
  \/ SingleDetailsReturn
  \/ SingleSignaturesReturn

SpecNetworks == InitNetworks /\ [][NextNetworks]_vars

\* ----------------------------------------------------- reading the history
\* The indices of the calls of one operation, oldest first.
IdxSeq(op) == SelectSeq([i \in 1..Len(calls) |-> i], LAMBDA i : calls[i].op = op)
CallIdx(op) == { i \in 1..Len(calls) : calls[i].op = op }
Replied(i) == i <= Len(replies)
Succeeded(i) == Replied(i) /\ replies[i].ok
Failed(i) == Replied(i) /\ ~replies[i].ok

\* The records printed as JSON: the one record of a single lookup, or the list
\* a bulk run prints at its end.
Emitted ==
  LET lists == SelectSeq(stdout, LAMBDA l : l.tag = "JsonList")
      ones  == SelectSeq(stdout, LAMBDA l : l.tag = "Json")
  IN IF Len(lists) > 0 THEN lists[1].records
     ELSE [k \in 1..Len(ones) |-> ones[k].record]

IsBulk == ~hash.some
IsSingle == hash.some

\* getTxDetails answered with a proposer that is zero / that is not zero.
AnsweredMissing(i) ==
  calls[i].op = "getTxDetails" /\ Succeeded(i) /\ replies[i].val.proposer = AddressZero
AnsweredFound(i) ==
  calls[i].op = "getTxDetails" /\ Succeeded(i) /\ replies[i].val.proposer # AddressZero

HashListFetched == \E i \in CallIdx("getPendingTxHashes") : Succeeded(i)

\* The number of records of `records` whose hash field is that of h.
RecordsOf(records, h) ==
  Cardinality({ k \in 1..Len(records) : records[k].hash = Format0x(h) })

\* ------------------------------------------------------------------ claims

\* C1 (as claimed): every record built (transactions) or emitted (printed as
\* JSON) comes from a getTxDetails call that succeeded with a proposer that is
\* not the zero address, in single-lookup and in bulk mode.
C1_RecordsOnlyOfFoundTransactions ==
  LET fromFound(r) ==
        \E i \in CallIdx("getTxDetails") :
          /\ AnsweredFound(i)
          /\ r.hash = Format0x(calls[i].txHash)
          /\ r.proposer = Format0x(replies[i].val.proposer)
  IN /\ \A k \in 1..Len(transactions) : fromFound(transactions[k])
     /\ \A k \in 1..Len(Emitted) : fromFound(Emitted[k])

\* C2: a bulk run whose hash list was fetched ends without error, has asked
\* getTxDetails for every hash of the list in order, whatever calls failed, and
\* prints exactly one record per hash whose getTxDetails succeeded (N - 1 records
\* when one of N fails).
C2_BulkToleratesDetailFailures ==
  (pc = "done" /\ IsBulk /\ HashListFetched) =>
    LET asked == IdxSeq("getTxDetails")
    IN /\ result = "Ok"
       /\ [k \in 1..Len(asked) |-> calls[asked[k]].txHash] = all_tx_hashes
       /\ Len(Emitted) = Cardinality({ i \in CallIdx("getTxDetails") : Succeeded(i) })
       /\ \A n \in 1..Len(all_tx_hashes) :
            RecordsOf(Emitted, all_tx_hashes[n]) =
              Cardinality({ i \in CallIdx("getTxDetails") :
                              Succeeded(i) /\ calls[i].txHash = all_tx_hashes[n] })

\* A bulk run over three hashes has ended; only the second getTxDetails failed
\* and two records are printed.
C2_Witness ==
  /\ pc = "done" /\ IsBulk /\ Len(all_tx_hashes) = 3
  /\ LET asked == IdxSeq("getTxDetails")
     IN Len(asked) = 3 /\ Succeeded(asked[1]) /\ Failed(asked[2]) /\ Succeeded(asked[3])
  /\ Len(Emitted) = 2
  /\ result = "Ok"

\* C3: a single lookup whose getTxDetails succeeds with the zero proposer has
\* failed with "Transaction not found" and has issued no getSignatures.
C3_ZeroProposerIsNotFound ==
  \A i \in CallIdx("getTxDetails") :
    (IsSingle /\ AnsweredMissing(i)) =>
      /\ pc = "done"
      /\ result = ErrNotFound
      /\ CallIdx("getSignatures") = {}

C3_Witness ==
  /\ IsSingle
  /\ \E i \in CallIdx("getTxDetails") : AnsweredMissing(i)
  /\ result = ErrNotFound

\* C4: a single lookup prints one record exactly when getTxDetails succeeded
\* with a non-zero proposer and getSignatures succeeded, and then ends "Ok"; a
\* details failure, a zero proposer and a signatures failure each end it with
\* their error and nothing printed as a record.
SingleFetched ==
  /\ \E i \in CallIdx("getTxDetails") : AnsweredFound(i)
  /\ \E j \in CallIdx("getSignatures") : Succeeded(j)

C4_SingleOneRecordOrError ==
  IsSingle =>
    /\ Len(Emitted) = (IF SingleFetched THEN 1 ELSE 0)
    /\ SingleFetched => pc = "done" /\ result = "Ok"
    /\ (pc = "done" /\ ~SingleFetched) => result \notin { "Ok", "Running" }
    /\ \A i \in CallIdx("getTxDetails") : Failed(i) => result = ErrDetails
    /\ \A i \in CallIdx("getTxDetails") : AnsweredMissing(i) => result = ErrNotFound
    /\ \A j \in CallIdx("getSignatures") : Failed(j) => result = ErrSignatures

C4_Witness ==
  /\ IsSingle /\ SingleFetched /\ pc = "done" /\ result = "Ok"
  /\ Len(Emitted) = 1
  /\ Emitted[1].signatures # <<>>

\* C5: in bulk mode a getSignatures failure leaves a record of that hash with
\* an empty signature list, is no error of the run, and the loop goes on with the
\* next hash of the list; in single-lookup mode it ends the run with the
\* signatures error and no record.
C5_SignaturesFailureByMode ==
  \A j \in CallIdx("getSignatures") :
    Failed(j) =>
      IF IsSingle
        THEN pc = "done" /\ result = ErrSignatures /\ Emitted = <<>>
        ELSE LET at == Cardinality({ i \in CallIdx("getTxDetails") : i < j })
                 h  == calls[j].txHash
             IN /\ result \in { "Running", "Ok" }
                /\ h = all_tx_hashes[at]
                /\ \E k \in 1..Len(transactions) :
                     /\ transactions[k].hash = Format0x(h)
                     /\ transactions[k].signatures = <<>>
                /\ Cardinality({ k \in 1..Len(transactions) :
                                   /\ transactions[k].hash = Format0x(h)
                                   /\ transactions[k].signatures = <<>> })
                     >= Cardinality({ i \in CallIdx("getSignatures") :
                                        Failed(i) /\ calls[i].txHash = h })
                /\ IF at < Len(all_tx_hashes)
                     THEN /\ Len(calls) > j
                          /\ calls[j + 1].op = "getTxDetails"
                          /\ calls[j + 1].txHash = all_tx_hashes[at + 1]
                     ELSE /\ pc = "done"
                          /\ result = "Ok"
                          /\ Emitted = transactions

\* A bulk run over at least two hashes has ended "Ok"; the signatures of the
\* first hash could not be fetched, those of the second could, and both records
\* are printed, one of them without signatures.
C5_Witness ==
  /\ IsBulk /\ pc = "done" /\ result = "Ok" /\ Len(all_tx_hashes) >= 2
  /\ LET asked == IdxSeq("getSignatures")
     IN Len(asked) >= 2 /\ Failed(asked[1]) /\ Succeeded(asked[2])
  /\ \E k \in 1..Len(Emitted) : Emitted[k].signatures = <<>>
  /\ \E k \in 1..Len(Emitted) : Emitted[k].signatures # <<>>

\* C6 (as claimed): when a bulk run has ended, every hash whose getTxDetails
\* failed or answered the zero proposer, or whose getSignatures failed, is named
\* (in full or in the abbreviated Display form) by a printed warning.
C6_EveryDowngradeWarned ==
  (pc = "done" /\ IsBulk) =>
    \A i \in 1..Len(replies) :
      ( \/ (calls[i].op \in { "getTxDetails", "getSignatures" } /\ Failed(i))
        \/ AnsweredMissing(i) ) =>
        \E k \in 1..Len(stdout) :
          /\ stdout[k].tag = "Warning"
          /\ stdout[k].hash \in { DisplayHash(calls[i].txHash),
                                  Format0x(calls[i].txHash) }

\* C7: a bulk run whose getPendingTxHashes answers the empty list has ended
\* "Ok" with the no-pending line, no record, and no getTxDetails or getSignatures
\* call.
C7_EmptyListEndsOk ==
  \A i \in CallIdx("getPendingTxHashes") :
    (Succeeded(i) /\ Len(replies[i].val) = 0) =>
      /\ pc = "done"
      /\ result = "Ok"
      /\ Emitted = <<>>
      /\ transactions = <<>>
      /\ stdout[Len(stdout)].tag = "NoPending"
      /\ CallIdx("getTxDetails") = {}
      /\ CallIdx("getSignatures") = {}

C7_Witness ==
  /\ IsBulk /\ pc = "done" /\ result = "Ok"
  /\ \E i \in CallIdx("getPendingTxHashes") : Succeeded(i) /\ Len(replies[i].val) = 0
  /\ Len(calls) = 4

\* C8: a bulk run whose getPendingTxHashes fails has ended with the hash-list
\* error, with no getTxDetails or getSignatures call and no record.
C8_HashListFailureIsFatal ==
  \A i \in CallIdx("getPendingTxHashes") :
    Failed(i) =>
      /\ pc = "done"
      /\ result = ErrHashes
      /\ Emitted = <<>>
      /\ transactions = <<>>
      /\ CallIdx("getTxDetails") = {}
      /\ CallIdx("getSignatures") = {}

C8_Witness ==
  /\ IsBulk /\ pc = "done" /\ result = ErrHashes
  /\ \E i \in CallIdx("getPendingTxHashes") : Failed(i)

\* C9 (as claimed): when the custom pool address is no valid address and the
\* run fails on it, no Chain Client call has been made.
C9_InvalidOverrideBeforeAnyCall ==
  (tx_pool.some /\ ~AddressFromStr(tx_pool.val).ok /\ result = ErrInvalidCustomPool) =>
    calls = <<>>

\* C10: the address of the pool existence check (the second getCodeAt) and of
\* every contract call is the custom address whenever a valid one is given,
\* whatever the chain id, and the address of the connected network only when
\* none is given.
PoolAddressesUsed ==
  { calls[i].contract :
      i \in { n \in 1..Len(calls) :
                calls[n].op \in { "getTxDetails", "getSignatures", "getPendingTxHashes" } } }
  \cup (IF Len(IdxSeq("getCodeAt")) >= 2
          THEN { calls[IdxSeq("getCodeAt")[2]].address } ELSE {})

C10_OverrideTakesPrecedence ==
  /\ (tx_pool.some /\ AddressFromStr(tx_pool.val).ok) =>
       PoolAddressesUsed \subseteq { AddressFromStr(tx_pool.val).val }
  /\ ~tx_pool.some =>
       PoolAddressesUsed \subseteq
         { AddressFromStr(get_safe_tx_pool_address(network_id)).val }

\* On Gnosis Chain, whose own pool address is valid and another one, the pool
\* check and three contract calls have gone to the custom address.
C10_Witness ==
  /\ tx_pool.some
  /\ network_id = GNOSIS
  /\ AddressFromStr(get_safe_tx_pool_address(network_id)).ok
  /\ AddressFromStr(get_safe_tx_pool_address(network_id)).val # OverridePoolAddress
  /\ PoolAddressesUsed = { OverridePoolAddress }
  /\ Len(calls) >= 6

\* C11: the wallet's code is asked for first and the pool's second; an empty
\* wallet code ends the run with the wallet-not-found error and the pool is not
\* asked for; an empty pool code ends it with the pool-not-found error, another
\* message; and a contract call is issued only after both answers were code.
ContractOps == { "getTxDetails", "getSignatures", "getPendingTxHashes" }
ContractCalls == { i \in 1..Len(calls) : calls[i].op \in ContractOps }
CodeAnswered(i, empty) ==
  calls[i].op = "getCodeAt" /\ Succeeded(i) /\ (Len(replies[i].val) = 0) = empty

C11_ExistenceChecksGate ==
  LET code == IdxSeq("getCodeAt")
  IN /\ Len(code) <= 2
     /\ Len(code) >= 1 => calls[code[1]].address = safe_address
     /\ Len(code) >= 2 => /\ CodeAnswered(code[1], FALSE)
                          /\ calls[code[2]].address = tx_pool_address
     /\ (Len(code) >= 1 /\ CodeAnswered(code[1], TRUE)) =>
          pc = "done" /\ result = ErrWalletNotFound /\ Len(code) = 1
     /\ (Len(code) >= 2 /\ CodeAnswered(code[2], TRUE)) =>
          pc = "done" /\ result = ErrPoolNotFound
     /\ ErrWalletNotFound # ErrPoolNotFound
     /\ ContractCalls # {} =>
          /\ Len(code) = 2
          /\ CodeAnswered(code[1], FALSE) /\ CodeAnswered(code[2], FALSE)
          /\ \A i \in ContractCalls : i > code[2]

\* The wallet holds code, the pool address does not: the run has ended with
\* the pool-not-found error and no contract call.
C11_Witness ==
  LET code == IdxSeq("getCodeAt")
  IN /\ Len(code) = 2
     /\ CodeAnswered(code[1], FALSE) /\ CodeAnswered(code[2], TRUE)
     /\ result = ErrPoolNotFound
     /\ ContractCalls = {}

\* C12: no call is repeated.  getChainId and getPendingTxHashes are issued at
\* most once, getCodeAt at most twice (the wallet, once the chain id is known
\* as a u64, then the pool); a single lookup issues getTxDetails and getSignatures at most
\* once; a bulk run issues its k-th getTxDetails for the k-th hash of the list
\* and never more of them than the list is long, and every getSignatures
\* directly follows the getTxDetails of its own list position.
C12_NoCallIsRepeated ==
  LET det  == IdxSeq("getTxDetails")
      sig  == IdxSeq("getSignatures")
      code == IdxSeq("getCodeAt")
      id   == IdxSeq("getChainId")
  IN /\ Len(id) <= 1
     /\ Len(IdxSeq("getPendingTxHashes")) <= 1
     /\ Len(code) <= 2
     /\ (Len(id) = 1 /\ Succeeded(id[1]) /\ FitsU64(replies[id[1]].val)) =>
          Len(code) >= 1
     /\ Len(sig) <= Len(det)
     /\ \A k \in 1..Len(sig) :
          /\ calls[sig[k] - 1].op = "getTxDetails"
          /\ calls[sig[k] - 1].txHash = calls[sig[k]].txHash
     /\ IsSingle => Len(det) <= 1
     /\ IsBulk =>
          /\ Len(det) <= Len(all_tx_hashes)
          /\ Len(det) = idx
          /\ \A k \in 1..Len(det) : calls[det[k]].txHash = all_tx_hashes[k]

\* A bulk run over HashA, HashB, HashA has ended: the first getTxDetails
\* failed and three getTxDetails and two getSignatures were issued in all.
C12_Witness ==
  /\ IsBulk /\ pc = "done" /\ all_tx_hashes = <<HashA, HashB, HashA>>
  /\ Failed(IdxSeq("getTxDetails")[1])
  /\ Len(IdxSeq("getTxDetails")) = 3
  /\ Len(IdxSeq("getSignatures")) = 2
  /\ Len(calls) = 9

\* C13: a run that has an error has printed no record, in either mode; and a
\* bulk run whose hash list was fetched never has an error: it ends "Ok", and
\* when the list was not empty its last line is the one JSON list of its records.
JsonLines == { k \in 1..Len(stdout) : stdout[k].tag \in { "Json", "JsonList" } }

C13_NoPartialSuccessWithError ==
  /\ result \notin { "Running", "Ok" } => JsonLines = {} /\ Emitted = <<>>
  /\ JsonLines # {} => pc = "done" /\ result = "Ok" /\ JsonLines = { Len(stdout) }
  /\ (IsBulk /\ HashListFetched) =>
       /\ result \in { "Running", "Ok" }
       /\ pc = "done" =>
            /\ result = "Ok"
            /\ Len(all_tx_hashes) > 0 =>
                 /\ stdout[Len(stdout)].tag = "JsonList"
                 /\ stdout[Len(stdout)].records = transactions

\* A bulk run in which a getTxDetails and a getSignatures failed has ended
\* "Ok" with records printed.
C13_Witness ==
  /\ IsBulk /\ pc = "done" /\ result = "Ok"
  /\ \E i \in CallIdx("getTxDetails") : Failed(i)
  /\ \E j \in CallIdx("getSignatures") : Failed(j)
  /\ Len(Emitted) >= 1

\* The records of a bulk run in the order they were fetched, read from the
\* history: one per getTxDetails that succeeded and whose getSignatures answered.
FetchedRecords ==
  LET got == SelectSeq(IdxSeq("getTxDetails"),
                       LAMBDA i : Succeeded(i) /\ Replied(i + 1))
  IN [k \in 1..Len(got) |->
        TransactionData(calls[got[k]].txHash, replies[got[k]].val,
                        BulkSignatures(replies[got[k] + 1]))]

\* The number a record's nonce text denotes, as digits without leading zeros.
NonceValue(record) ==
  StripZeros([i \in 1..Len(record.nonce) |-> DecVal(record.nonce[i])])

\* C14 (as claimed): the list a bulk run prints is a permutation of the fetched
\* records in ascending order of their nonces, records of equal nonce in the
\* order they were fetched.
C14_SortedByNonceStable ==
  (pc = "done" /\ IsBulk /\ Len(all_tx_hashes) > 0) =>
    LET n == Len(FetchedRecords)
    IN /\ Len(Emitted) = n
       /\ \E p \in Permutations(1..n) :
            /\ \A k \in 1..n : Emitted[k] = FetchedRecords[p[k]]
            /\ \A k, l \in 1..n :
                 k < l =>
                   /\ ~DigitsLess(NonceValue(Emitted[l]), NonceValue(Emitted[k]))
                   /\ NonceValue(Emitted[k]) = NonceValue(Emitted[l]) => p[k] < p[l]

\* C15 (as claimed): when a bulk run sorts its records every nonce parses (the
\* fallback to 0 is not taken), and a record whose nonce is 2^64 or more is
\* printed behind every record of a smaller nonce.
C15_NonceOrderBeyondU64 ==
  (pc = "done" /\ IsBulk /\ Len(Emitted) >= 2) =>
    /\ \A k \in 1..Len(Emitted) : ParseU64(Emitted[k].nonce).ok
    /\ \A k, l \in 1..Len(Emitted) :
         ( /\ DigitsLess(U64Max, NonceValue(Emitted[k]))
           /\ DigitsLess(NonceValue(Emitted[l]), NonceValue(Emitted[k])) ) => l < k

\* C16: the resolver is total.  Once it was called with the chain id (the
\* answer converted to u64), the network name
\* is the documented one for each of the eight recognized ids and "Unknown
\* Network" for any other id; and when no custom pool is given, the address
\* announced and checked is the table's address of a recognized id and the one
\* fallback address of any other id, each of them a valid address.
DocumentedNames ==
     (1 :> "Ethereum Mainnet") @@ (5 :> "Goerli Testnet")
  @@ (11155111 :> "Sepolia Testnet") @@ (137 :> "Polygon")
  @@ (42161 :> "Arbitrum") @@ (10 :> "Optimism") @@ (8453 :> "Base")
  @@ (100 :> "Gnosis Chain")

ExpectedPoolText(id) ==
  IF id \in DOMAIN DocumentedNames THEN SAFE_TX_POOL_ADDRESSES[id]
                                   ELSE DEFAULT_SAFE_TX_POOL_ADDRESS

C16_ResolverIsTotal ==
  (\E i \in CallIdx("getChainId") : Succeeded(i) /\ FitsU64(replies[i].val)) =>
    /\ DOMAIN SAFE_TX_POOL_ADDRESSES = DOMAIN DocumentedNames
    /\ pc # "panicked"
    /\ \A i \in CallIdx("getChainId") : U256Of(network_id) = replies[i].val
    /\ network_name = (IF network_id \in DOMAIN DocumentedNames
                         THEN DocumentedNames[network_id] ELSE "Unknown Network")
    /\ \A k \in 1..Len(stdout) :
         /\ stdout[k].tag = "Connected" =>
              stdout[k].network_name = network_name /\ stdout[k].network_id = network_id
         /\ stdout[k].tag = "UsingPool" =>
              /\ stdout[k].address = ExpectedPoolText(network_id)
              /\ stdout[k].network_name = network_name
    /\ result # ErrInvalidPool
    /\ (~tx_pool.some /\ Len(IdxSeq("getCodeAt")) >= 2) =>
         /\ \E k \in 1..Len(stdout) : stdout[k].tag = "UsingPool"
         /\ Format0x(calls[IdxSeq("getCodeAt")[2]].address)
              = [n \in 1..(2 * AddressBytes + 2) |->
                   LET c == ExpectedPoolText(network_id)[n]
                   IN IF n <= 2 THEN c ELSE HexLower[HexVal(c) + 1]]

\* On Sepolia, without a custom pool, a lookup has reached the pool contract at
\* Sepolia's own address, which is not the fallback address.
C16_Witness ==
  /\ network_id = 11155111 /\ network_name = "Sepolia Testnet"
  /\ ~tx_pool.some
  /\ ContractCalls # {}
  /\ SAFE_TX_POOL_ADDRESSES[network_id] # DEFAULT_SAFE_TX_POOL_ADDRESS
  /\ \E k \in 1..Len(stdout) :
       stdout[k].tag = "UsingPool" /\ stdout[k].address = SAFE_TX_POOL_ADDRESSES[11155111]

\* "0x" and 64 lowercase hex characters.
IsCanonicalHashText(text) ==
  /\ Len(text) = 2 * H256Bytes + 2
  /\ text[1] = "0" /\ text[2] = "x"
  /\ \A n \in 3..Len(text) : \E d \in 1..16 : text[n] = HexLower[d]

\* The text without an "0x" in front and with A-F as a-f.
LowerHex(text) ==
  LET body == IF Len(text) >= 2 /\ text[1] = "0" /\ text[2] = "x"
                THEN SubSeq(text, 3, Len(text)) ELSE text
  IN [n \in 1..Len(body) |->
        IF \E d \in 1..16 : body[n] = HexUpper[d]
          THEN HexLower[CHOOSE d \in 1..16 : body[n] = HexUpper[d]]
          ELSE body[n]]

\* The record is the one built for position p of the hash list: its hash is
\* that element's, its fields are the answers to that position's calls.
BuiltForPosition(record, p) ==
  LET d == IdxSeq("getTxDetails")[p]
  IN /\ p <= Len(IdxSeq("getTxDetails"))
     /\ Succeeded(d) /\ Replied(d + 1)
     /\ calls[d].txHash = all_tx_hashes[p]
     /\ calls[d + 1].op = "getSignatures" /\ calls[d + 1].txHash = all_tx_hashes[p]
     /\ record.hash = <<"0", "x">> \o HexEncode(all_tx_hashes[p])
     /\ record.nonce = U256ToString(replies[d].val.nonce)
     /\ record.proposer = <<"0", "x">> \o HexEncode(replies[d].val.proposer)
     /\ record.signatures = BulkSignatures(replies[d + 1])

\* C17: the hash field of every record is the canonical text of the hash the
\* record was fetched for.  Single lookup: the hash is that of the getTxDetails
\* and getSignatures calls, it is the requested text in lowercase with "0x" in
\* front, and a requested text that is canonical comes out unchanged.  Bulk:
\* the records can be matched one-to-one with list positions, each record
\* being built from its position's hash and its position's answers.
C17_HashFieldIsCanonical ==
  LET records == IF IsBulk THEN transactions ELSE Emitted
  IN /\ \A k \in 1..Len(records) : IsCanonicalHashText(records[k].hash)
     /\ \A k \in 1..Len(Emitted) : IsCanonicalHashText(Emitted[k].hash)
     /\ IsSingle =>
          \A k \in 1..Len(Emitted) :
            /\ \A i \in CallIdx("getTxDetails") \cup CallIdx("getSignatures") :
                 Emitted[k].hash = <<"0", "x">> \o HexEncode(calls[i].txHash)
            /\ Emitted[k].hash = <<"0", "x">> \o LowerHex(hash.val)
            /\ IsCanonicalHashText(hash.val) => Emitted[k].hash = hash.val
     /\ IsBulk =>
          /\ Len(records) <= Len(all_tx_hashes)
          /\ \E f \in [1..Len(records) -> 1..Len(all_tx_hashes)] :
               /\ \A k, l \in 1..Len(records) : f[k] = f[l] => k = l
               /\ \A k \in 1..Len(records) : BuiltForPosition(records[k], f[k])
          /\ pc = "done" /\ Len(all_tx_hashes) > 0 =>
               /\ Len(Emitted) = Len(records)
               /\ \A r \in { records[k] : k \in 1..Len(records) } :
                    Cardinality({ k \in 1..Len(records) : records[k] = r })
                      = Cardinality({ k \in 1..Len(Emitted) : Emitted[k] = r })

\* A single lookup of a canonical hash text printed its record with that text.
C17_Witness ==
  /\ IsSingle /\ result = "Ok"
  /\ IsCanonicalHashText(hash.val)
  /\ Len(Emitted) = 1 /\ Emitted[1].hash = hash.val

\* C18: the remote calls of a run are sequential and dependent.  At most one
\* call is unanswered, and it is the last one issued; every getSignatures call
\* comes directly after the getTxDetails call of the same hash, which
\* succeeded; in a bulk run the k-th getTxDetails call is for position k of the
\* list and is issued when every earlier call has been answered.
C18_CallsAreSequential ==
  /\ Len(calls) - Len(replies) \in { 0, 1 }
  /\ pc = "done" => Len(calls) = Len(replies)
  /\ \A j \in CallIdx("getSignatures") :
       /\ j > 1
       /\ calls[j - 1].op = "getTxDetails"
       /\ calls[j - 1].txHash = calls[j].txHash
       /\ Succeeded(j - 1)
  /\ \A i \in CallIdx("getTxDetails") :
       /\ \A e \in 1..(i - 1) : Replied(e)
       /\ (Replied(i) /\ i < Len(calls) /\ calls[i + 1].op # "getSignatures") =>
            Failed(i) \/ IsSingle
  /\ IsBulk =>
       LET details == IdxSeq("getTxDetails")
       IN /\ Len(details) <= Len(all_tx_hashes)
          /\ Len(details) = (IF pc \in { "await_bulk_details", "await_bulk_signatures" }
                               THEN idx
                               ELSE IF pc = "done" /\ HashListFetched
                                 THEN Len(all_tx_hashes) ELSE 0)
          /\ \A k \in 1..Len(details) :
               /\ calls[details[k]].txHash = all_tx_hashes[k]
               /\ k > 1 => /\ details[k] - details[k - 1] \in { 1, 2 }
                           /\ details[k] - details[k - 1] = 2 =>
                                /\ calls[details[k] - 1].op = "getSignatures"
                                /\ calls[details[k] - 1].txHash = all_tx_hashes[k - 1]
                                /\ Replied(details[k] - 1)

\* A bulk run is waiting for the details of its third hash: the first hash
\* was answered with details and then signatures, the second one's details
\* failed.
C18_Witness ==
  /\ IsBulk /\ pc = "await_bulk_details" /\ idx = 3
  /\ Len(calls) = Len(replies) + 1
  /\ LET details == IdxSeq("getTxDetails")
     IN /\ Succeeded(details[1]) /\ Replied(details[1] + 1)
        /\ Failed(details[2])
        /\ details[3] = Len(calls)

\* The text is 2n hex digits, with or without "0x" in front.
IsHexTextOf(text, n) ==
  LET from == IF Len(text) >= 2 /\ text[1] = "0" /\ text[2] = "x" THEN 3 ELSE 1
  IN /\ Len(text) - from + 1 = 2 * n
     /\ \A k \in from..Len(text) :
          \E d \in 1..16 : text[k] = HexLower[d] \/ text[k] = HexUpper[d]

\* C19: malformed input never reaches the pool contract.  With a wallet text
\* that is not an address no call at all is made and the run ends with the
\* invalid-address error.  With a hash text that is not a hash a single lookup
\* makes no contract call and, once wallet and pool were found to hold code,
\* ends with the invalid-hash error.  Neither error is given for a valid text.
C19_MalformedInputReachesNoContract ==
  /\ ~IsHexTextOf(safe, AddressBytes) =>
       /\ calls = <<>>
       /\ pc \in { "start", "done" }
       /\ pc = "done" => result = ErrInvalidSafe
  /\ result = ErrInvalidSafe => ~IsHexTextOf(safe, AddressBytes)
  /\ (IsSingle /\ ~IsHexTextOf(hash.val, H256Bytes)) =>
       /\ ContractCalls = {}
       /\ result # "Ok"
       /\ pc \notin { "await_details", "await_signatures" }
       /\ LET code == IdxSeq("getCodeAt")
          IN (Len(code) = 2 /\ CodeAnswered(code[2], FALSE)) =>
               pc = "done" /\ result = ErrInvalidHash
  /\ result = ErrInvalidHash => IsSingle /\ ~IsHexTextOf(hash.val, H256Bytes)
  /\ ErrInvalidHash # ErrInvalidSafe

\* A single lookup of a text that is not a hash: wallet and pool were found,
\* the run ended with the invalid-hash error and no contract call.
C19_Witness ==
  /\ IsSingle /\ ~IsHexTextOf(hash.val, H256Bytes)
  /\ IsHexTextOf(safe, AddressBytes)
  /\ Len(IdxSeq("getCodeAt")) = 2 /\ CodeAnswered(IdxSeq("getCodeAt")[2], FALSE)
  /\ result = ErrInvalidHash
  /\ ContractCalls = {}

\* C20 (as claimed): provided every remote call returns, every run ends, with a
\* result or with a named error, and after the two existence checks it issues at most 2
\* contract calls in a single lookup and at most 1 + 2N in a bulk run whose
\* hash list has N hashes.
Terminated == pc = "done" /\ result # "Running"

ContractCallBound ==
  IF IsSingle THEN 2 ELSE 1 + 2 * Len(all_tx_hashes)

CallsWithinBound ==
  /\ Cardinality(ContractCalls) <= ContractCallBound
  /\ Len(calls) <= 3 + ContractCallBound
  /\ pc # "done" => result = "Running"

C20_TerminatesWithinCallBound == <>Terminated /\ []CallsWithinBound

\* A bulk run over two hashes or more has ended after 1 + 2N contract calls.
C20_Witness ==
  /\ IsBulk /\ Terminated /\ result = "Ok"
  /\ Len(all_tx_hashes) >= 2
  /\ Cardinality(ContractCalls) = 1 + 2 * Len(all_tx_hashes)

====
